---- MODULE Spec2Model ----
(***************************************************************************)
(* Model of the two stateful teaching patterns of the advanced-patterns    *)
(* file: OrderStateMachine (section 4) and EventEmitter (section 5).       *)
(*                                                                         *)
(* JavaScript objects are modelled by reference: `heap` holds the Order    *)
(* objects that have been allocated, an Order value held by the program    *)
(* is an index into it.  A thrown exception unwinds to the caller and is   *)
(* recorded as the outcome of the call.                                    *)
(***************************************************************************)
EXTENDS Integers, Sequences, FiniteSets, TLC

\* ---------------------------------------------------------------- bounds
MaxRejected == 1       \* transition calls that are rejected
MaxSetData == 3        \* entries ever added to the handler sets, all events
MaxOnce == 1           \* once() calls
MaxFired == 2          \* invocations counted per once() registration
MaxItems == 3          \* items the repository of 09-classes holds
MaxRefunds == 2        \* payments at hand when refundPayment is still called
MaxTimers == 2         \* setTimeout callbacks pending at a time
MaxTime == 3           \* timer ticks the clock runs
MaxRetries == 2        \* the largest maxRetries a caller passes
MaxUsers == 3          \* users the repository of the repository pattern holds
MaxWhere == 2          \* where calls on one query builder
MaxData == 3           \* length of the array execute is given
MaxExecutes == 2       \* execute calls on one builder and array
MaxDepth == 6          \* frames the call stack holds before the engine gives up

\* ---------------------------------------------------------------- inputs
OrderIds == {"o1", "o2"}
TrackingNumbers == {"T1", "T2"}
Reasons == {"R1", "R2"}

Undefined == "undefined"          \* an optional field that is not set
NoRef == 0                        \* no object

VARIABLES
  validTransitions,   \* OrderStateMachine.validTransitions
  heap,               \* allocated Order objects, by reference
  order,              \* the `order` variable of the usage code (a reference)
  hist,               \* one record per transition call made so far
  canLog              \* the last direct canTransition call and its answer

orderVars == <<validTransitions, heap, order, hist, canLog>>

VARIABLES
  listeners,   \* EventEmitter.listeners: event -> Set data (insertion order)
  stack,       \* call stack of a running emit: forEach frames, handler frames
  onces,       \* the onceHandler closures created so far
  armed,       \* closure flag of the re-emitting handler
  outcome,     \* how the last call made by the program ended
  done,        \* the emit call that returned last, within the last call
  registered,  \* per event, the handlers on() was called for and off() was
               \* not, in the order of the on() calls
  lastOff,     \* the off() call of the program, when it is its last call
  again        \* per event, the handlers on() was called for while they
               \* were registered

emitterVars ==
  <<listeners, stack, onces, armed, outcome, done, registered, lastOff, again>>

VARIABLES
  arrays,      \* allocated arrays, by reference; arrays[1] is repo.items
  got,         \* the array the last getAll() returned (a reference)
  repoLog      \* the last call made on the repository and what it found

repoVars == <<arrays, got, repoLog>>

VARIABLES
  payHeap,   \* allocated Payment objects, by reference
  payLog   \* the last refundPayment call and what it returned

payVars == <<payHeap, payLog>>

VARIABLES
  store,   \* MemoryCache.store: key -> value
  timers,   \* the setTimeout callbacks not yet run: key and due time
  clock,   \* the time, in timer ticks
  lastWrite   \* per key, the value and the expiry time of the last set()

cacheVars == <<store, timers, clock, lastWrite>>

VARIABLES
  frame,   \* the locals of the function withRetry returned
  calls,   \* the calls of fn made by the running invocation
  settled   \* how the promise of the last invocation settled

retryVars == <<frame, calls, settled>>

VARIABLES
  users,   \* UserRepository.users of the repository pattern
  userLog   \* the last call made on that repository and how it ended

userVars == <<users, userLog>>

VARIABLES
  filters,   \* QueryBuilder.filters: the predicates of the where calls
  sortFn,   \* QueryBuilder.sortFn, Undefined until sortBy
  limitCount,   \* QueryBuilder.limitCount: <<>> while undefined, else <<count>>
  executed   \* the execute calls made since the builder last changed

queryVars == <<filters, sortFn, limitCount, executed>>

libVars == <<repoVars, payVars, cacheVars, retryVars, userVars, queryVars>>

\* what the calls on one example leave alone
exceptRepo ==
  <<orderVars, emitterVars, payVars, cacheVars,
    retryVars, userVars, queryVars>>
exceptPay ==
  <<orderVars, emitterVars, repoVars, cacheVars,
    retryVars, userVars, queryVars>>
exceptCache ==
  <<orderVars, emitterVars, repoVars, payVars,
    retryVars, userVars, queryVars>>
exceptRetry ==
  <<orderVars, emitterVars, repoVars, payVars,
    cacheVars, userVars, queryVars>>
exceptUser ==
  <<orderVars, emitterVars, repoVars, payVars,
    cacheVars, retryVars, queryVars>>
exceptQuery ==
  <<orderVars, emitterVars, repoVars, payVars,
    cacheVars, retryVars, userVars>>

vars == <<orderVars, emitterVars, libVars>>

\* ------------------------------------------------------- OrderStateMachine
OrderState == {"pending", "confirmed", "shipped", "delivered", "cancelled"}

OrderEvent ==
  {[type |-> "CONFIRM"], [type |-> "DELIVER"]}
    \cup {[type |-> "SHIP", trackingNumber |-> t] : t \in TrackingNumbers}
    \cup {[type |-> "CANCEL", reason |-> r] : r \in Reasons}

\* a faulty table in which a shipped order can still be cancelled
TransitionsShippedCancellable ==
  [s \in OrderState |->
     CASE s = "pending" -> <<"confirmed", "cancelled">>
       [] s = "confirmed" -> <<"shipped", "cancelled">>
       [] s = "shipped" -> <<"delivered", "cancelled">>
       [] s = "delivered" -> <<>>
       [] s = "cancelled" -> <<>>]

\* a faulty table in which a delivered order can be confirmed again
TransitionsWithReturn ==
  [s \in OrderState |->
     CASE s = "pending" -> <<"confirmed", "cancelled">>
       [] s = "confirmed" -> <<"shipped", "cancelled">>
       [] s = "shipped" -> <<"delivered">>
       [] s = "delivered" -> <<"confirmed">>
       [] s = "cancelled" -> <<>>]

\* private validTransitions: Record<OrderState, OrderState[]>
InitialTransitions ==
  [s \in OrderState |->
     CASE s = "pending" -> <<"confirmed", "cancelled">>
       [] s = "confirmed" -> <<"shipped", "cancelled">>
       [] s = "shipped" -> <<"delivered">>
       [] s = "delivered" -> <<>>
       [] s = "cancelled" -> <<>>]

\* Array.prototype.includes
includes(arr, x) == \E i \in 1..Len(arr) : arr[i] = x

\* faulty variants of canTransition: arguments swapped; cancel always allowed
canTransitionReversed(from, to) == includes(validTransitions[to], from)

canTransitionLoose(from, to) ==
  includes(validTransitions[from], to) \/ to = "cancelled"

canTransition(from, to) == includes(validTransitions[from], to)

\* new Error(`Cannot ${verb} order in ${state} state`)
NoError == [name |-> "none", message |-> <<>>]
\* new Error(`Unknown event: ${_exhaustive}`), the event an object
UnknownEvent ==
  [name |-> "Error", message |-> <<"Unknown event:", "[object Object]">>]
CannotError(verb, state) ==
  [name |-> "Error", message |-> <<"Cannot", verb, "order in", state, "state">>]

\* the state each case of the switch asks canTransition about
TargetOf(event) ==
  CASE event.type = "CONFIRM" -> "confirmed"
    [] event.type = "SHIP" -> "shipped"
    [] event.type = "DELIVER" -> "delivered"
    [] event.type = "CANCEL" -> "cancelled"

\* the verb each case of the switch puts in its message
VerbOf(event) ==
  CASE event.type = "CONFIRM" -> "confirm"
    [] event.type = "SHIP" -> "ship"
    [] event.type = "DELIVER" -> "deliver"
    [] event.type = "CANCEL" -> "cancel"

\* a faulty object literal without the spread: only id, state and the
\* field of the event are written
SpreadFresh(o, event) ==
  [id |-> o.id, state |-> TargetOf(event),
   trackingNumber |->
     IF event.type = "SHIP" THEN event.trackingNumber ELSE Undefined,
   cancellationReason |->
     IF event.type = "CANCEL" THEN event.reason ELSE Undefined]

\* { ...order, state: ..., [field: ...] } : the object literal of each case
Spread(o, event) ==
  CASE event.type = "CONFIRM" -> [o EXCEPT !.state = "confirmed"]
    [] event.type = "SHIP" ->
         [o EXCEPT !.state = "shipped", !.trackingNumber = event.trackingNumber]
    [] event.type = "DELIVER" -> [o EXCEPT !.state = "delivered"]
    [] event.type = "CANCEL" ->
         [o EXCEPT !.state = "cancelled", !.cancellationReason = event.reason]

Returned(h, r) == [heap |-> h, threw |-> FALSE, ret |-> r, error |-> NoError]
Threw(h, e) == [heap |-> h, threw |-> TRUE, ret |-> NoRef, error |-> e]

\* faulty variants of transition ------------------------------------------
\* updates the order it was given instead of building a new one
transitionInPlace(h, o, event) ==
  IF ~canTransition(h[o].state, TargetOf(event))
  THEN Threw(h, CannotError(VerbOf(event), h[o].state))
  ELSE Returned([h EXCEPT ![o] = Spread(h[o], event)], o)

\* writes the event's field before it checks the table
transitionWriteFirst(h, o, event) ==
  LET h1 == IF event.type = "SHIP"
            THEN [h EXCEPT ![o].trackingNumber = event.trackingNumber]
            ELSE IF event.type = "CANCEL"
            THEN [h EXCEPT ![o].cancellationReason = event.reason]
            ELSE h
  IN IF ~canTransition(h[o].state, TargetOf(event))
     THEN Threw(h1, CannotError(VerbOf(event), h[o].state))
     ELSE Returned(Append(h, Spread(h[o], event)), Len(h) + 1)

\* forgets the field carried by the event
transitionDropsField(h, o, event) ==
  IF ~canTransition(h[o].state, TargetOf(event))
  THEN Threw(h, CannotError(VerbOf(event), h[o].state))
  ELSE Returned(Append(h, [h[o] EXCEPT !.state = TargetOf(event)]), Len(h) + 1)

\* reports the target state instead of the current one
transitionWrongMessage(h, o, event) ==
  IF ~canTransition(h[o].state, TargetOf(event))
  THEN Threw(h, CannotError(VerbOf(event), TargetOf(event)))
  ELSE Returned(Append(h, Spread(h[o], event)), Len(h) + 1)

\* one case of the switch: the guard, then the object literal
SwitchCase(h, o, event) ==
  IF ~canTransition(h[o].state, TargetOf(event))
  THEN Threw(h, CannotError(VerbOf(event), h[o].state))
  ELSE Returned(Append(h, Spread(h[o], event)), Len(h) + 1)

\* a switch that has no case for DELIVER
transitionNoDeliver(h, o, event) ==
  CASE event.type = "CONFIRM" -> SwitchCase(h, o, event)
    [] event.type = "SHIP" -> SwitchCase(h, o, event)
    [] event.type = "CANCEL" -> SwitchCase(h, o, event)
    [] OTHER -> Threw(h, UnknownEvent)

\* OrderStateMachine.transition(order, event) on the heap h, o a reference
transition(h, o, event) ==
  CASE event.type = "CONFIRM" -> SwitchCase(h, o, event)
    [] event.type = "SHIP" -> SwitchCase(h, o, event)
    [] event.type = "DELIVER" -> SwitchCase(h, o, event)
    [] event.type = "CANCEL" -> SwitchCase(h, o, event)
    [] OTHER -> Threw(h, UnknownEvent)

\* ----------------------------------------------------------------- usage
\* let order: Order = { id: ..., state: "pending" }
NewOrder(id) ==
  [id |-> id, state |-> "pending",
   trackingNumber |-> Undefined, cancellationReason |-> Undefined]

\* the order program starts with a new state machine and a pending order;
\* it has an emitter that it never uses
OrderInit ==
  /\ validTransitions = InitialTransitions
  /\ \E id \in OrderIds : heap = <<NewOrder(id)>>
  /\ order = 1
  /\ hist = <<>>
  /\ canLog = <<>>
  /\ listeners = <<>>
  /\ stack = <<>>
  /\ onces = <<>>
  /\ armed = TRUE
  /\ outcome = "none"
  /\ done = <<>>
  /\ registered = [e \in {"login", "logout"} |-> <<>>]
  /\ lastOff = <<>>
  /\ again = [e \in {"login", "logout"} |-> {}]
  /\ arrays = <<<<>>>>
  /\ got = NoRef
  /\ repoLog = <<>>
  /\ payHeap = <<>>
  /\ payLog = <<>>
  /\ store = <<>>
  /\ timers = <<>>
  /\ clock = 0
  /\ lastWrite = [k \in {"k1", "k2"} |-> <<>>]
  /\ frame = [pc |-> "idle", maxRetries |-> 0, args |-> <<>>, i |-> 0,
              lastError |-> "undefined"]
  /\ calls = <<>>
  /\ settled = <<>>
  /\ users = <<>>
  /\ userLog = <<>>
  /\ filters = <<>>
  /\ sortFn = Undefined
  /\ limitCount = <<>>
  /\ executed = <<>>

Rejected(hs) == Cardinality({i \in 1..Len(hs) : hs[i].threw})

\* order = stateMachine.transition(order, event)
\* (a throw leaves the assignment undone)
Transition(event) ==
  /\ LET r == transition(heap, order, event)
     IN /\ r.threw => Rejected(hist) < MaxRejected
        /\ heap' = r.heap
        /\ order' = IF r.threw THEN order ELSE r.ret
        /\ hist' = Append(hist,
             [arg |-> order, before |-> heap[order], event |-> event,
              threw |-> r.threw, ret |-> r.ret, error |-> r.error,
              after |-> r.heap[order],
              allocated |-> Len(r.heap) - Len(heap)])
  /\ UNCHANGED <<validTransitions, canLog>>
  /\ UNCHANGED <<emitterVars, libVars>>

\* a faulty canTransition that takes the state it finds out of the table
CanTransitionConsuming(from, to) ==
  /\ canLog' = <<[from |-> from, to |-> to, answer |-> canTransition(from, to)]>>
  /\ validTransitions' =
       [validTransitions EXCEPT
          ![from] = SelectSeq(@, LAMBDA x : x # to)]
  /\ UNCHANGED <<heap, order, hist>>
  /\ UNCHANGED <<emitterVars, libVars>>

\* stateMachine.canTransition(from, to)
CanTransition(from, to) ==
  /\ canLog' = <<[from |-> from, to |-> to, answer |-> canTransition(from, to)]>>
  /\ UNCHANGED <<validTransitions, heap, order, hist>>
  /\ UNCHANGED <<emitterVars, libVars>>

OrderNext ==
  \/ \E event \in OrderEvent : Transition(event)
  \/ \E from \in OrderState, to \in OrderState : CanTransition(from, to)


\* ------------------------------------------------------------ EventEmitter
EventNames == {"login", "logout"}
Payloads == {"p1", "p2"}

\* the functions clients pass to on / off / once, by what their body does:
\* hA, hB return; hThrow throws; hRe calls emit for the event it is handling
\* the first time it runs
FnNames == {"hA", "hB", "hThrow", "hRe"}

Fn(name) == [k |-> "fn", name |-> name, n |-> 0, ev |-> ""]
\* the closure `onceHandler` made by the n-th call of once(ev, name)
OnceHandler(n, ev, name) == [k |-> "once", name |-> name, n |-> n, ev |-> ev]
\* a Set entry whose value has been deleted
Empty == [k |-> "empty", name |-> "", n |-> 0, ev |-> ""]

\* a faulty Set.prototype.add that puts the new value in front
SetAddFront(sd, h) ==
  IF \E i \in 1..Len(sd) : sd[i] = h THEN sd ELSE <<h>> \o sd

\* a faulty add that behaves like Array.prototype.push
SetAddAlways(sd, h) == Append(sd, h)

\* Set.prototype.add: a value already present keeps its place
SetAdd(sd, h) ==
  IF \E i \in 1..Len(sd) : sd[i] = h THEN sd ELSE Append(sd, h)

\* a faulty Set.prototype.delete that drops the value and all values after it
SetDeleteTruncate(sd, h) ==
  IF \E i \in 1..Len(sd) : sd[i] = h
  THEN SubSeq(sd, 1, (CHOOSE i \in 1..Len(sd) : sd[i] = h) - 1)
  ELSE sd

\* Set.prototype.delete: the entry is emptied, later entries keep their index
SetDelete(sd, h) == [i \in 1..Len(sd) |-> IF sd[i] = h THEN Empty ELSE sd[i]]

\* the values of a Set in iteration order
RECURSIVE Live(_)
Live(sd) ==
  IF sd = <<>> THEN <<>>
  ELSE IF sd[1] = Empty THEN Live(Tail(sd)) ELSE <<sd[1]>> \o Live(Tail(sd))

Has(sd, h) == \E i \in 1..Len(sd) : sd[i] = h

\* this.listeners.get(event), <<>> for a Set that was never created
Handlers(ls, e) == IF e \in DOMAIN ls THEN ls[e] ELSE <<>>

\* a faulty on that keeps one handler set for all events
onEvery(ls, e, h) ==
  [x \in DOMAIN ls \cup {e} |-> SetAdd(Handlers(ls, x), h)]

\* on(event, handler)
on(ls, e, h) ==
  LET created == IF e \in DOMAIN ls THEN ls
                 ELSE [x \in DOMAIN ls \cup {e} |-> IF x = e THEN <<>> ELSE ls[x]]
  IN [created EXCEPT ![e] = SetAdd(created[e], h)]

\* a faulty off that creates the Set of an event that has none
offCreates(ls, e, h) ==
  [x \in DOMAIN ls \cup {e} |-> SetDelete(Handlers(ls, x), h)]

\* off(event, handler)
off(ls, e, h) ==
  IF e \in DOMAIN ls THEN [ls EXCEPT ![e] = SetDelete(ls[e], h)] ELSE ls

\* entries ever added to the Sets of the map (emptied ones included)
RECURSIVE SumLen(_, _)
SumLen(ls, es) ==
  IF es = {} THEN 0
  ELSE LET e == CHOOSE x \in es : TRUE IN Len(ls[e]) + SumLen(ls, es \ {e})
Added(ls) == SumLen(ls, DOMAIN ls)

\* the on() and off() calls as the caller sees them
Registering(reg, e, h) ==
  IF \E i \in 1..Len(reg[e]) : reg[e][i] = h THEN reg
  ELSE [reg EXCEPT ![e] = Append(@, h)]
Unregistering(reg, e, h) ==
  [reg EXCEPT ![e] = SelectSeq(@, LAMBDA x : x # h)]

\* stack frames
\* (at: the handler sets when the call was made; skipped, added: the
\* handlers off / on was called for while a forEach had not visited them)
EmitFrame(e, d) ==
  [k |-> "emit", ev |-> e, data |-> d, idx |-> 0, h |-> Empty, pc |-> "forEach",
   start |-> registered[e], seen |-> <<>>, mutated |-> FALSE,
   at |-> listeners, skipped |-> {}, added |-> {}]
CallFrame(h, e, d) ==
  [k |-> "call", ev |-> e, data |-> d, idx |-> 0, h |-> h, pc |-> "body",
   start |-> <<>>, seen |-> <<>>, mutated |-> FALSE,
   at |-> listeners, skipped |-> {}, added |-> {}]

Top == stack[Len(stack)]
Pop(st) == SubSeq(st, 1, Len(st) - 1)
SetTop(st, f) == [st EXCEPT ![Len(st)] = f]

\* every running emit sees that on or off has been called
MarkMutated(st) ==
  [i \in 1..Len(st) |->
     IF st[i].k = "emit" THEN [st[i] EXCEPT !.mutated = TRUE] ELSE st[i]]

SeenHandlers(f) == {f.seen[j].h : j \in 1..Len(f.seen)}

\* off(e, h) is called while the emits of st are running
NoteOff(st, e, h) ==
  LET m == MarkMutated(st)
  IN [i \in 1..Len(m) |->
        IF /\ m[i].k = "emit"
           /\ m[i].ev = e
           /\ Has(Handlers(listeners, e), h)
           /\ h \notin SeenHandlers(m[i])
        THEN [m[i] EXCEPT !.skipped = @ \cup {h}] ELSE m[i]]

\* on(e, h) is called while the emits of st are running
NoteOn(st, e, h) ==
  LET m == MarkMutated(st)
  IN [i \in 1..Len(m) |->
        IF m[i].k = "emit" /\ m[i].ev = e /\ ~Has(Handlers(listeners, e), h)
        THEN [m[i] EXCEPT !.added = @ \cup {h}] ELSE m[i]]

Idle == stack = <<>>

\* the emitter program starts with a new emitter; its order stays as created
EmitterInit ==
  /\ validTransitions = InitialTransitions
  /\ heap = <<NewOrder("o1")>>
  /\ order = 1
  /\ hist = <<>>
  /\ canLog = <<>>
  /\ listeners = <<>>
  /\ stack = <<>>
  /\ onces = <<>>
  /\ armed = TRUE
  /\ outcome = "none"
  /\ done = <<>>
  /\ registered = [e \in EventNames |-> <<>>]
  /\ lastOff = <<>>
  /\ again = [e \in {"login", "logout"} |-> {}]
  /\ arrays = <<<<>>>>
  /\ got = NoRef
  /\ repoLog = <<>>
  /\ payHeap = <<>>
  /\ payLog = <<>>
  /\ store = <<>>
  /\ timers = <<>>
  /\ clock = 0
  /\ lastWrite = [k \in {"k1", "k2"} |-> <<>>]
  /\ frame = [pc |-> "idle", maxRetries |-> 0, args |-> <<>>, i |-> 0,
              lastError |-> "undefined"]
  /\ calls = <<>>
  /\ settled = <<>>
  /\ users = <<>>
  /\ userLog = <<>>
  /\ filters = <<>>
  /\ sortFn = Undefined
  /\ limitCount = <<>>
  /\ executed = <<>>

\* userEvents.on(e, h)
OnCall(e, name) ==
  /\ Idle
  /\ Added(listeners) < MaxSetData
  /\ listeners' = on(listeners, e, Fn(name))
  /\ registered' = Registering(registered, e, Fn(name))
  /\ outcome' = "returned"
  /\ done' = <<>>
  /\ lastOff' = <<>>
  /\ UNCHANGED <<stack, onces, armed>>
  /\ UNCHANGED <<orderVars, libVars>>

On(e, name) == OnCall(e, name) /\ UNCHANGED again

\* the same call, noted when the handler is already registered for e
OnRecorded(e, name) ==
  /\ OnCall(e, name)
  /\ again' = IF Has(Handlers(listeners, e), Fn(name))
              THEN [again EXCEPT ![e] = @ \cup {Fn(name)}]
              ELSE again

\* userEvents.off(e, h)
OffCall(e, name) ==
  /\ Idle
  /\ listeners' = off(listeners, e, Fn(name))
  /\ registered' = Unregistering(registered, e, Fn(name))
  /\ outcome' = "returned"
  /\ done' = <<>>
  /\ UNCHANGED <<stack, onces, armed>>
  /\ UNCHANGED <<again, orderVars, libVars>>

Off(e, name) == OffCall(e, name) /\ lastOff' = <<>>

\* the once() registrations of handler `name` for e that no emit of e has
\* reached yet
Waiting(e, name) ==
  {n \in 1..Len(onces) :
     onces[n].h.ev = e /\ onces[n].h.name = name /\ ~onces[n].emitted}

\* the same call, with what it found kept for comparison: the handler sets
\* and the once() registrations made with the handler it is given
OffRecorded(e, name) ==
  /\ OffCall(e, name)
  /\ lastOff' = <<[ev |-> e, h |-> Fn(name), before |-> listeners,
                   waiting |-> Waiting(e, name)]>>

\* userEvents.once(e, h): a new onceHandler closure is registered with on
Once(e, name) ==
  /\ Idle
  /\ Len(onces) < MaxOnce
  /\ Added(listeners) < MaxSetData
  /\ LET w == OnceHandler(Len(onces) + 1, e, name)
     IN /\ onces' = Append(onces, [h |-> w, fired |-> 0, emitted |-> FALSE])
        /\ listeners' = on(listeners, e, w)
        /\ registered' = Registering(registered, e, w)
  /\ outcome' = "returned"
  /\ done' = <<>>
  /\ lastOff' = <<>>
  /\ UNCHANGED <<stack, armed>>
  /\ UNCHANGED <<again, orderVars, libVars>>

\* the emit call that has just returned
Finished(f) ==
  <<[ev |-> f.ev, data |-> f.data, start |-> f.start, seen |-> f.seen,
     mutated |-> f.mutated, at |-> f.at, after |-> listeners,
     final |-> registered[f.ev], skipped |-> f.skipped, added |-> f.added]>>

\* userEvents.emit(e, d): without a Set for e it returns at once,
\* otherwise forEach starts
Emit(e, d) ==
  /\ Idle
  /\ onces' = [n \in 1..Len(onces) |->
                 IF onces[n].h.ev = e
                 THEN [onces[n] EXCEPT !.emitted = TRUE] ELSE onces[n]]
  /\ IF e \in DOMAIN listeners
     THEN /\ stack' = <<EmitFrame(e, d)>>
          /\ outcome' = "running"
          /\ done' = <<>>
     ELSE /\ stack' = <<>>
          /\ outcome' = "returned"
          /\ done' = Finished(EmitFrame(e, d))
  /\ UNCHANGED <<listeners, armed>>
  /\ UNCHANGED <<registered, lastOff, again, orderVars, libVars>>

\* a faulty forEach that also visits the entries whose value was deleted
PendingAll(sd, idx) == (idx + 1)..Len(sd)

\* the entries forEach has still to visit: those after idx that hold a value
Pending(sd, idx) == {i \in (idx + 1)..Len(sd) : sd[i] # Empty}

\* a faulty forEach that starts from the last entry
NextEntryLast(sd, idx) ==
  CHOOSE i \in Pending(sd, idx) : \A j \in Pending(sd, idx) : j <= i

\* the entry forEach visits next: the first one not yet visited
NextEntry(sd, idx) ==
  CHOOSE i \in Pending(sd, idx) : \A j \in Pending(sd, idx) : i <= j

\* handlers.forEach((handler) => handler(data)): call the next handler
ForEachCall ==
  /\ ~Idle
  /\ Top.k = "emit"
  /\ Pending(listeners[Top.ev], Top.idx) # {}
  /\ LET i == NextEntry(listeners[Top.ev], Top.idx)
         h == listeners[Top.ev][i]
     IN stack' = Append(
          SetTop(stack, [Top EXCEPT !.idx = i,
                                    !.seen = Append(@, [h |-> h, data |-> Top.data])]),
          CallFrame(h, Top.ev, Top.data))
  /\ UNCHANGED <<listeners, onces, armed, outcome, done>>
  /\ UNCHANGED <<registered, lastOff, again, orderVars, libVars>>

\* forEach has visited every entry: emit returns
ForEachReturn ==
  /\ ~Idle
  /\ Top.k = "emit"
  /\ Pending(listeners[Top.ev], Top.idx) = {}
  /\ stack' = Pop(stack)
  /\ done' = Finished(Top)
  /\ outcome' = IF Len(stack) = 1 THEN "returned" ELSE outcome
  /\ UNCHANGED <<listeners, onces, armed>>
  /\ UNCHANGED <<registered, lastOff, again, orderVars, libVars>>

\* the invocation count kept per once() registration, capped at MaxFired
Count(n) == IF n < MaxFired THEN n + 1 ELSE MaxFired

\* a handler that returns
HandlerReturns ==
  /\ ~Idle
  /\ Top.k = "call"
  /\ Top.h.k = "fn"
  /\ \/ Top.h.name \in {"hA", "hB"}
     \/ Top.h.name = "hRe" /\ (Top.pc = "after" \/ ~armed)
     \/ Top.h.name = "hLoop" /\ Top.pc = "after"
  /\ stack' = Pop(stack)
  /\ UNCHANGED <<listeners, onces, armed, outcome, done>>
  /\ UNCHANGED <<registered, lastOff, again, orderVars, libVars>>

\* a faulty dispatch that catches what a handler throws and goes on
HandlerThrowsCaught ==
  /\ ~Idle
  /\ Top.k = "call"
  /\ Top.h.k = "fn"
  /\ Top.h.name = "hThrow"
  /\ stack' = Pop(stack)
  /\ outcome' = "threw"
  /\ UNCHANGED <<listeners, onces, armed, done>>
  /\ UNCHANGED <<registered, lastOff, again, orderVars, libVars>>

\* a handler that throws: nothing catches, the program's emit call fails
HandlerThrows ==
  /\ ~Idle
  /\ Top.k = "call"
  /\ Top.h.k = "fn"
  /\ Top.h.name = "hThrow"
  /\ stack' = <<>>
  /\ outcome' = "threw"
  /\ UNCHANGED <<listeners, onces, armed, done>>
  /\ UNCHANGED <<registered, lastOff, again, orderVars, libVars>>

\* a handler that calls emit(event, data) from inside its own invocation
HandlerEmits ==
  /\ ~Idle
  /\ Top.k = "call"
  /\ Top.h.k = "fn"
  /\ Top.h.name = "hRe"
  /\ Top.pc = "body"
  /\ armed
  /\ armed' = FALSE
  /\ stack' = Append(SetTop(stack, [Top EXCEPT !.pc = "after"]),
                     EmitFrame(Top.ev, Top.data))
  /\ UNCHANGED <<listeners, onces, outcome, done>>
  /\ UNCHANGED <<registered, lastOff, again, orderVars, libVars>>

\* onceHandler, first statement: handler(data)
OnceCallsHandler ==
  /\ ~Idle
  /\ Top.k = "call"
  /\ Top.h.k = "once"
  /\ Top.pc = "body"
  /\ onces' = [onces EXCEPT ![Top.h.n].fired = Count(@)]
  /\ stack' = Append(SetTop(stack, [Top EXCEPT !.pc = "after"]),
                     CallFrame(Fn(Top.h.name), Top.ev, Top.data))
  /\ UNCHANGED <<listeners, armed, outcome, done>>
  /\ UNCHANGED <<registered, lastOff, again, orderVars, libVars>>

\* onceHandler, second statement: this.off(event, onceHandler)
OnceCallsOff ==
  /\ ~Idle
  /\ Top.k = "call"
  /\ Top.h.k = "once"
  /\ Top.pc = "after"
  /\ listeners' = off(listeners, Top.h.ev, Top.h)
  /\ registered' = Unregistering(registered, Top.h.ev, Top.h)
  /\ stack' = NoteOff(Pop(stack), Top.h.ev, Top.h)
  /\ UNCHANGED <<onces, armed, outcome, done>>
  /\ UNCHANGED <<lastOff, again, orderVars, libVars>>

\* a faulty emit with a re-entrancy guard: called while an emit is running,
\* it returns at once
HandlerLoopsGuarded ==
  /\ ~Idle
  /\ Top.k = "call"
  /\ Top.h.k = "fn"
  /\ Top.h.name = "hLoop"
  /\ Top.pc = "body"
  /\ stack' = SetTop(stack, [Top EXCEPT !.pc = "after"])
  /\ UNCHANGED <<listeners, onces, armed, outcome, done>>
  /\ UNCHANGED <<registered, lastOff, again, orderVars, libVars>>

\* a handler whose body is emit(event, data), every time it runs
HandlerLoops ==
  /\ ~Idle
  /\ Top.k = "call"
  /\ Top.h.k = "fn"
  /\ Top.h.name = "hLoop"
  /\ Top.pc = "body"
  /\ Len(stack) < MaxDepth
  /\ stack' = Append(SetTop(stack, [Top EXCEPT !.pc = "after"]),
                     EmitFrame(Top.ev, Top.data))
  /\ UNCHANGED <<listeners, onces, armed, outcome, done>>
  /\ UNCHANGED <<registered, lastOff, again, orderVars, libVars>>

\* the call stack is full: the engine throws RangeError from the call that
\* does not fit, and nothing catches it
StackOverflow ==
  /\ ~Idle
  /\ Top.k = "call"
  /\ Top.h.k = "fn"
  /\ Top.h.name = "hLoop"
  /\ Top.pc = "body"
  /\ Len(stack) >= MaxDepth
  /\ stack' = <<>>
  /\ outcome' = "threw"
  /\ UNCHANGED <<listeners, onces, armed, done>>
  /\ UNCHANGED <<registered, lastOff, again, orderVars, libVars>>

\* a handler whose body is off(event, hA), for the event it is handling
HandlerCallsOff ==
  /\ ~Idle
  /\ Top.k = "call"
  /\ Top.h.k = "fn"
  /\ Top.h.name = "hOff"
  /\ listeners' = off(listeners, Top.ev, Fn("hA"))
  /\ registered' = Unregistering(registered, Top.ev, Fn("hA"))
  /\ stack' = NoteOff(Pop(stack), Top.ev, Fn("hA"))
  /\ UNCHANGED <<onces, armed, outcome, done>>
  /\ UNCHANGED <<lastOff, again, orderVars, libVars>>

\* a handler whose body is on(event, hA), for the event it is handling
HandlerCallsOn ==
  /\ ~Idle
  /\ Top.k = "call"
  /\ Top.h.k = "fn"
  /\ Top.h.name = "hOn"
  /\ Has(Handlers(listeners, Top.ev), Fn("hA")) \/ Added(listeners) < MaxSetData
  /\ listeners' = on(listeners, Top.ev, Fn("hA"))
  /\ registered' = Registering(registered, Top.ev, Fn("hA"))
  /\ stack' = NoteOn(Pop(stack), Top.ev, Fn("hA"))
  /\ UNCHANGED <<onces, armed, outcome, done>>
  /\ UNCHANGED <<lastOff, again, orderVars, libVars>>

EmitterNext ==
  \/ \E e \in EventNames, name \in FnNames : On(e, name)
  \/ \E e \in EventNames, name \in FnNames : Off(e, name)
  \/ \E e \in EventNames, name \in FnNames : Once(e, name)
  \/ \E e \in EventNames, d \in Payloads : Emit(e, d)
  \/ ForEachCall
  \/ ForEachReturn
  \/ HandlerReturns
  \/ HandlerThrows
  \/ HandlerEmits
  \/ OnceCallsHandler
  \/ OnceCallsOff

\* the handlers that only return

\* the handlers that only return
PlainNames == {"hA", "hB"}

\* programs that register, unregister and emit handlers that only return
OffNext ==
  \/ \E e \in EventNames, name \in PlainNames : On(e, name)
  \/ \E e \in EventNames, name \in PlainNames : OffRecorded(e, name)
  \/ \E e \in EventNames, name \in PlainNames : Once(e, name)
  \/ \E e \in EventNames, d \in Payloads : Emit(e, d)
  \/ ForEachCall
  \/ ForEachReturn
  \/ HandlerReturns
  \/ OnceCallsHandler
  \/ OnceCallsOff

\* the handlers of programs that change the handler set during a dispatch:
\* hA returns; hOff unregisters hA; hOn registers hA
DispatchNames == {"hA", "hOff", "hOn"}

DispatchNext ==
  \/ \E e \in EventNames, name \in DispatchNames : On(e, name)
  \/ \E e \in EventNames, name \in DispatchNames : Off(e, name)
  \/ \E e \in EventNames, d \in Payloads : Emit(e, d)
  \/ ForEachCall
  \/ ForEachReturn
  \/ HandlerReturns
  \/ HandlerCallsOff
  \/ HandlerCallsOn

\* programs that register handlers more than once
TwiceNext ==
  \/ \E e \in EventNames, name \in PlainNames : OnRecorded(e, name)
  \/ \E e \in EventNames, name \in PlainNames : OffRecorded(e, name)
  \/ \E e \in EventNames, d \in Payloads : Emit(e, d)
  \/ ForEachCall
  \/ ForEachReturn
  \/ HandlerReturns

\* the handlers of programs with a handler that always emits again:
\* hA returns; hLoop calls emit for the event it is handling
LoopNames == {"hA", "hLoop"}

LoopNext ==
  \/ \E e \in EventNames, name \in LoopNames : On(e, name)
  \/ \E e \in EventNames, name \in LoopNames : Off(e, name)
  \/ \E e \in EventNames, d \in Payloads : Emit(e, d)
  \/ ForEachCall
  \/ ForEachReturn
  \/ HandlerReturns
  \/ HandlerLoops
  \/ StackOverflow

\* the order program; the emitter of section 5 is not used by it
SpecOrder == OrderInit /\ [][OrderNext]_vars

\* the emitter program; the order of section 4 stays as it was created
SpecEmitter == EmitterInit /\ [][EmitterNext]_vars

\* the emitter program of plain handlers, its repeated on() calls noted
SpecTwice == EmitterInit /\ [][TwiceNext]_vars

\* the emitter program with a handler that always emits again
SpecLoop == EmitterInit /\ [][LoopNext]_vars

\* the emitter program whose handlers call on and off
SpecDispatch == EmitterInit /\ [][DispatchNext]_vars

\* the emitter program of plain handlers, its off() calls recorded
SpecOff == EmitterInit /\ [][OffNext]_vars

\* ---------------------------------------------------------------- library
\* the programs of the other examples start with nothing stored; the order
\* and the emitter stay as they are created
LibraryInit ==
  /\ validTransitions = InitialTransitions
  /\ heap = <<NewOrder("o1")>>
  /\ order = 1
  /\ hist = <<>>
  /\ canLog = <<>>
  /\ listeners = <<>>
  /\ stack = <<>>
  /\ onces = <<>>
  /\ armed = TRUE
  /\ outcome = "none"
  /\ done = <<>>
  /\ registered = [e \in {"login", "logout"} |-> <<>>]
  /\ lastOff = <<>>
  /\ again = [e \in {"login", "logout"} |-> {}]
  /\ arrays = <<<<>>>>
  /\ got = NoRef
  /\ repoLog = <<>>
  /\ payHeap = <<>>
  /\ payLog = <<>>
  /\ store = <<>>
  /\ timers = <<>>
  /\ clock = 0
  /\ lastWrite = [k \in {"k1", "k2"} |-> <<>>]
  /\ frame = [pc |-> "idle", maxRetries |-> 0, args |-> <<>>, i |-> 0,
              lastError |-> "undefined"]
  /\ calls = <<>>
  /\ settled = <<>>
  /\ users = <<>>
  /\ userLog = <<>>
  /\ filters = <<>>
  /\ sortFn = Undefined
  /\ limitCount = <<>>
  /\ executed = <<>>

\* --------------------------------------- 09-classes: BaseRepository<T>
\* UserProfile; name stands for the fields that are not the id
UserIds == {1, 2}
UserNames == {"Alice", "Bob"}
UserProfile == [id : UserIds, name : UserNames]
\* the undefined that find returns
NoProfile == [id |-> 0, name |-> Undefined]

\* the first position (from 1) of an item with this id, 0 without one
FirstWithId(arr, id) ==
  IF \E i \in 1..Len(arr) : arr[i].id = id
  THEN CHOOSE i \in 1..Len(arr) :
         arr[i].id = id /\ \A j \in 1..(i - 1) : arr[j].id # id
  ELSE 0

\* this.items.findIndex((u) => u.id === id), an index from 0
findIndex(arr, id) == FirstWithId(arr, id) - 1

\* this.items.splice(index, 1)
splice(arr, index) ==
  [j \in 1..(Len(arr) - 1) |-> IF j <= index THEN arr[j] ELSE arr[j + 1]]

\* a faulty delete that filters out every item with the id
deleteFilter(arr, id) ==
  [items |-> SelectSeq(arr, LAMBDA u : u.id # id),
   ret |-> \E i \in 1..Len(arr) : arr[i].id = id]

\* UserRepository.delete(id)
delete(arr, id) ==
  LET index == findIndex(arr, id)
  IN IF index = -1 THEN [items |-> arr, ret |-> FALSE]
     ELSE [items |-> splice(arr, index), ret |-> TRUE]

\* BaseRepository.findById(id)
findById(arr, id) ==
  IF FirstWithId(arr, id) = 0 THEN NoProfile ELSE arr[FirstWithId(arr, id)]

items == arrays[1]

RepoCall(op, id, item, ret) ==
  <<[op |-> op, id |-> id, item |-> item, before |-> items, ret |-> ret]>>

\* repo.add(item)
RepoAdd(item) ==
  /\ Len(items) < MaxItems
  /\ arrays' = [arrays EXCEPT ![1] = Append(@, item)]
  /\ repoLog' = RepoCall("add", item.id, item, NoProfile)
  /\ UNCHANGED got
  /\ UNCHANGED exceptRepo

\* repo.delete(id)
RepoDelete(id) ==
  /\ arrays' = [arrays EXCEPT ![1] = delete(items, id).items]
  /\ repoLog' = RepoCall("delete", id, NoProfile, delete(items, id).ret)
  /\ UNCHANGED got
  /\ UNCHANGED exceptRepo

\* repo.findById(id)
RepoFindById(id) ==
  /\ repoLog' = RepoCall("findById", id, NoProfile, findById(items, id))
  /\ UNCHANGED <<arrays, got>>
  /\ UNCHANGED exceptRepo

\* repo.getAll(): [...this.items] is a new array; the one returned by the
\* call before is dropped
RepoGetAll ==
  /\ arrays' = <<items, items>>
  /\ got' = 2
  /\ repoLog' = RepoCall("getAll", 0, NoProfile, NoProfile)
  /\ UNCHANGED exceptRepo

\* the caller empties the array getAll() returned: all.length = 0
CallerClears ==
  /\ got # NoRef
  /\ arrays[got] # <<>>
  /\ arrays' = [arrays EXCEPT ![got] = <<>>]
  /\ repoLog' = RepoCall("clear", 0, NoProfile, NoProfile)
  /\ UNCHANGED got
  /\ UNCHANGED exceptRepo

RepoNext ==
  \/ \E item \in UserProfile : RepoAdd(item)
  \/ \E id \in UserIds : RepoDelete(id)
  \/ \E id \in UserIds : RepoFindById(id)
  \/ RepoGetAll
  \/ CallerClears

SpecRepo == LibraryInit /\ [][RepoNext]_vars

\* ------------------------------- 08-discriminated-unions: refundPayment
PayOrderIds == {"ord1", "ord2"}
Amounts == {10, 25}
TransactionIds == {"tx1", "tx2"}
Dates == {"d1", "d2"}
FailReasons == {"declined"}

\* a Payment; a field its variant does not have is undefined
Pay(status, orderId, amount, transactionId, completedAt, reason, failedAt, refundedAt, refundReason) ==
  [status |-> status, orderId |-> orderId, amount |-> amount,
   transactionId |-> transactionId, completedAt |-> completedAt,
   reason |-> reason, failedAt |-> failedAt, refundedAt |-> refundedAt,
   refundReason |-> refundReason]

PendingPayment ==
  {Pay("pending", o, a, Undefined, Undefined, Undefined, Undefined, Undefined,
       Undefined) : o \in PayOrderIds, a \in Amounts}
ProcessingPayment ==
  {Pay("processing", x[1], x[2], x[3], Undefined, Undefined, Undefined,
       Undefined, Undefined) : x \in PayOrderIds \X Amounts \X TransactionIds}
CompletedPayment ==
  {Pay("completed", x[1], x[2], x[3], x[4], Undefined, Undefined, Undefined,
       Undefined) : x \in PayOrderIds \X Amounts \X TransactionIds \X Dates}
FailedPayment ==
  {Pay("failed", x[1], x[2], Undefined, Undefined, x[3], x[4], Undefined,
       Undefined) : x \in PayOrderIds \X Amounts \X FailReasons \X Dates}
RefundedPayment ==
  {Pay("refunded", x[1], x[2], x[3], Undefined, Undefined, Undefined, x[4],
       "Customer request") :
     x \in PayOrderIds \X Amounts \X TransactionIds \X Dates}
Payment ==
  PendingPayment \cup ProcessingPayment \cup CompletedPayment
    \cup FailedPayment \cup RefundedPayment

\* the object literal refundPayment returns
Refund(p, now) ==
  Pay("refunded", p.orderId, p.amount, p.transactionId, Undefined, Undefined,
      Undefined, now, "Customer request")

\* a faulty refundPayment that turns the payment it is given into the refund
refundPaymentInPlace(h, ref, now) ==
  IF h[ref].status # "completed"
  THEN [heap |-> h, ret |-> NoRef,
        console |-> <<"Can only refund completed payments">>]
  ELSE [heap |-> [h EXCEPT ![ref] = Refund(h[ref], now)], ret |-> ref,
        console |-> <<>>]

\* refundPayment(payment) on the heap h, ref a reference, now = new Date()
refundPayment(h, ref, now) ==
  IF h[ref].status # "completed"
  THEN [heap |-> h, ret |-> NoRef,
        console |-> <<"Can only refund completed payments">>]
  ELSE [heap |-> Append(h, Refund(h[ref], now)), ret |-> Len(h) + 1,
        console |-> <<>>]

\* a payment is received
NewPayment(p) ==
  /\ payHeap' = <<p>>
  /\ payLog' = <<>>
  /\ UNCHANGED exceptPay

\* refundPayment(payment) for one of the payments at hand
RefundPayment(ref, now) ==
  /\ Len(payHeap) <= MaxRefunds
  /\ LET r == refundPayment(payHeap, ref, now)
     IN /\ payHeap' = r.heap
        /\ payLog' = <<[arg |-> ref, before |-> payHeap[ref], ret |-> r.ret,
                        console |-> r.console,
                        allocated |-> Len(r.heap) - Len(payHeap)]>>
  /\ UNCHANGED exceptPay

PayNext ==
  \/ \E p \in Payment : NewPayment(p)
  \/ \E ref \in 1..Len(payHeap), now \in Dates : RefundPayment(ref, now)

SpecPay == LibraryInit /\ [][PayNext]_vars

\* ------------------------------------------------------------ MemoryCache
CacheKeys == {"k1", "k2"}
CacheValues == {"v1", "v2"}
\* the ttl argument of set, in timer ticks; 0 and undefined are the same to
\* `if (ttl)`
Ttls == {0, 1, 2}
Null == "null"

\* get(key): this.store.get(key) ?? null
get(st, key) == IF key \in DOMAIN st THEN st[key] ELSE Null

\* this.store.set(key, value)
MapSet(st, key, value) ==
  [x \in DOMAIN st \cup {key} |-> IF x = key THEN value ELSE st[x]]

\* this.store.delete(key)
MapDelete(st, key) == [x \in DOMAIN st \ {key} |-> st[x]]

\* cache.set(key, value, ttl)
CacheSet(key, value, ttl) ==
  /\ ttl # 0 => Len(timers) < MaxTimers
  /\ store' = MapSet(store, key, value)
  /\ timers' = IF ttl # 0
               THEN Append(timers, [key |-> key, due |-> clock + ttl])
               ELSE timers
  /\ lastWrite' =
       [lastWrite EXCEPT
          ![key] = <<[value |-> value, ttl |-> ttl, due |-> clock + ttl]>>]
  /\ UNCHANGED clock
  /\ UNCHANGED exceptCache

\* time passes
Tick ==
  /\ clock < MaxTime
  /\ clock' = clock + 1
  /\ UNCHANGED <<store, timers, lastWrite>>
  /\ UNCHANGED exceptCache

\* the timers that are due run in the order of their due times, and in the
\* order they were set when these are equal
FiresNext(i) ==
  /\ timers[i].due <= clock
  /\ \A j \in 1..Len(timers) : timers[i].due <= timers[j].due
  /\ \A j \in 1..(i - 1) : timers[j].due # timers[i].due

\* the callback of setTimeout: () => this.store.delete(key)
TimerFires(i) ==
  /\ FiresNext(i)
  /\ store' = MapDelete(store, timers[i].key)
  /\ timers' = SubSeq(timers, 1, i - 1) \o SubSeq(timers, i + 1, Len(timers))
  /\ UNCHANGED <<clock, lastWrite>>
  /\ UNCHANGED exceptCache

CacheNext ==
  \/ \E key \in CacheKeys, value \in CacheValues, ttl \in Ttls :
       CacheSet(key, value, ttl)
  \/ Tick
  \/ \E i \in 1..Len(timers) : TimerFires(i)

SpecCache == LibraryInit /\ [][CacheNext]_vars

\* -------------------------------------------------------------- withRetry
\* maxRetries: number = 3
DefaultMaxRetries == 3
\* the maxRetries a caller passes (none passed: the default)
RetryCounts == 0..MaxRetries \cup {DefaultMaxRetries}
\* the arguments a caller passes, and what fn resolves or rejects with
RetryArgs == {<<"a1">>, <<"a1", "a2">>}
FnResults == {"r1", "r2"}
FnErrors == {"e1", "e2"}

\* a faulty loop condition that lets one more round run
LoopingInclusive(f) == f.i <= f.maxRetries

\* for (...; i < maxRetries; ...)
Looping(f) == f.i < f.maxRetries

\* the function withRetry(fn, maxRetries) returned is called with args
Invoke(maxRetries, args) ==
  /\ frame.pc = "idle"
  /\ frame' = [pc |-> "loop", maxRetries |-> maxRetries, args |-> args,
                i |-> 0, lastError |-> Undefined]
  /\ calls' = <<>>
  /\ settled' = <<>>
  /\ UNCHANGED exceptRetry

\* return await fn(...args), fn resolving with r
FnResolves(r) ==
  /\ frame.pc = "loop"
  /\ Looping(frame)
  /\ calls' = Append(calls, [args |-> frame.args, ok |-> TRUE, value |-> r])
  /\ settled' = <<[kind |-> "resolved", value |-> r]>>
  /\ frame' = [frame EXCEPT !.pc = "idle"]
  /\ UNCHANGED exceptRetry

\* await fn(...args), fn throwing or rejecting with e: the catch block
\* and i++
FnRejects(e) ==
  /\ frame.pc = "loop"
  /\ Looping(frame)
  /\ calls' = Append(calls, [args |-> frame.args, ok |-> FALSE, value |-> e])
  /\ frame' = [frame EXCEPT !.lastError = e, !.i = @ + 1]
  /\ UNCHANGED settled
  /\ UNCHANGED exceptRetry

\* the loop is over: throw lastError
ThrowLastError ==
  /\ frame.pc = "loop"
  /\ ~Looping(frame)
  /\ settled' = <<[kind |-> "rejected", value |-> frame.lastError]>>
  /\ frame' = [frame EXCEPT !.pc = "idle"]
  /\ UNCHANGED calls
  /\ UNCHANGED exceptRetry

RetryNext ==
  \/ \E maxRetries \in RetryCounts, args \in RetryArgs : Invoke(maxRetries, args)
  \/ \E r \in FnResults : FnResolves(r)
  \/ \E e \in FnErrors : FnRejects(e)
  \/ ThrowLastError

SpecRetry == LibraryInit /\ [][RetryNext]_vars

\* ------------------------------------- repository pattern: UserRepository
\* the ids Math.random().toString(36) produces, and those callers ask for
RandomIds == {"u1", "u2"}
AskedIds == {"u1", "u2", "u3"}
PersonNames == {"Ann", "Ben"}
\* a field that a Partial<User> does not have
Absent == "absent"

\* User; name stands for name and email, updatedAt for the two dates
User(id, name, updatedAt) == [id |-> id, name |-> name, updatedAt |-> updatedAt]
\* Partial<User> as update is called with it
PartialUser == [id : RandomIds \cup {Absent}, name : PersonNames \cup {Absent}]

\* new Error("User not found")
UserNotFound == [name |-> "Error", message |-> <<"User not found">>]

\* { ...this.users[index], ...data, updatedAt: new Date() }
Merged(u, data, date) ==
  [id |-> IF data.id = Absent THEN u.id ELSE data.id,
   name |-> IF data.name = Absent THEN u.name ELSE data.name,
   updatedAt |-> date]

\* a faulty update that stores the data as a new user when the id is unknown
updateUpsert(us, id, data, date) ==
  LET index == findIndex(us, id)
  IN IF index = -1
     THEN [users |-> Append(us, Merged(User(id, Undefined, date), data, date)),
           threw |-> FALSE, error |-> NoError]
     ELSE [users |-> [us EXCEPT ![index + 1] = Merged(us[index + 1], data, date)],
           threw |-> FALSE, error |-> NoError]

\* UserRepository.update(id, data), date = new Date()
update(us, id, data, date) ==
  LET index == findIndex(us, id)
  IN IF index = -1
     THEN [users |-> us, threw |-> TRUE, error |-> UserNotFound]
     ELSE [users |-> [us EXCEPT ![index + 1] = Merged(us[index + 1], data, date)],
           threw |-> FALSE, error |-> NoError]

\* UserRepository.delete(id) of the repository pattern
deleteUser(us, id) ==
  LET index == findIndex(us, id)
  IN IF index = -1 THEN [users |-> us, ret |-> FALSE]
     ELSE [users |-> splice(us, index), ret |-> TRUE]

UserCall(op, id, threw, error, ret) ==
  <<[op |-> op, id |-> id, before |-> users, threw |-> threw, error |-> error,
     ret |-> ret]>>

\* userRepository.create(data)
UserCreate(id, name) ==
  /\ Len(users) < MaxUsers
  /\ users' = Append(users, User(id, name, "d0"))
  /\ userLog' = UserCall("create", id, FALSE, NoError, FALSE)
  /\ UNCHANGED exceptUser

\* userRepository.update(id, data)
UserUpdate(id, data) ==
  /\ LET r == update(users, id, data, "d1")
     IN /\ users' = r.users
        /\ userLog' = UserCall("update", id, r.threw, r.error, FALSE)
  /\ UNCHANGED exceptUser

\* userRepository.delete(id)
UserDelete(id) ==
  /\ users' = deleteUser(users, id).users
  /\ userLog' = UserCall("delete", id, FALSE, NoError, deleteUser(users, id).ret)
  /\ UNCHANGED exceptUser

UserNext ==
  \/ \E id \in RandomIds, name \in PersonNames : UserCreate(id, name)
  \/ \E id \in AskedIds, data \in PartialUser : UserUpdate(id, data)
  \/ \E id \in AskedIds : UserDelete(id)

SpecUser == LibraryInit /\ [][UserNext]_vars

\* ------------------------------------------- builder pattern: QueryBuilder
\* the products of the usage
Products ==
  {[id |-> 1, price |-> 999, category |-> "electronics"],
   [id |-> 2, price |-> 29, category |-> "electronics"],
   [id |-> 3, price |-> 299, category |-> "furniture"]}

\* the predicates of the usage, applied to an item
Holds(predicate, p) ==
  CASE predicate = "isElectronics" -> p.category = "electronics"
    [] predicate = "over50" -> p.price > 50

\* the comparators: (a, b) => b.price - a.price and its reverse
compare(fn, a, b) ==
  CASE fn = "priceDesc" -> b.price - a.price
    [] fn = "priceAsc" -> a.price - b.price

\* result.filter(filter) for every filter, in the order of the where calls
RECURSIVE filterAll(_, _)
filterAll(fs, result) ==
  IF fs = <<>> THEN result
  ELSE filterAll(Tail(fs), SelectSeq(result, LAMBDA p : Holds(Head(fs), p)))

\* the place of p in a sorted array: after every item that does not sort
\* after it (Array.prototype.sort is stable)
RECURSIVE InsertSorted(_, _, _)
InsertSorted(fn, sorted, p) ==
  IF sorted = <<>> THEN <<p>>
  ELSE IF compare(fn, Head(sorted), p) <= 0
       THEN <<Head(sorted)>> \o InsertSorted(fn, Tail(sorted), p)
       ELSE <<p>> \o sorted

\* result.sort(this.sortFn)
RECURSIVE sort(_, _)
sort(result, fn) ==
  IF result = <<>> THEN <<>>
  ELSE InsertSorted(fn, sort(SubSeq(result, 1, Len(result) - 1), fn),
                    result[Len(result)])

\* QueryBuilder.execute(data): the array given as the call leaves it, and
\* the array returned; slice(0, count) counts a negative count from the end
execute(fs, fn, count, data) ==
  LET filtered == filterAll(fs, data)
      sorted == IF fn # Undefined THEN sort(filtered, fn) ELSE filtered
      end == IF count = <<>> THEN Len(sorted)
             ELSE IF count[1] < 0
                  THEN IF Len(sorted) + count[1] < 0 THEN 0
                       ELSE Len(sorted) + count[1]
                  ELSE IF count[1] > Len(sorted) THEN Len(sorted)
                       ELSE count[1]
  IN [data |-> data, result |-> SubSeq(sorted, 1, end)]

\* builder.where(predicate)
Where(predicate) ==
  /\ Len(filters) < MaxWhere
  /\ filters' = Append(filters, predicate)
  /\ executed' = <<>>
  /\ UNCHANGED <<sortFn, limitCount, exceptQuery>>

\* builder.sortBy(fn)
SortBy(fn) ==
  /\ sortFn' = fn
  /\ executed' = <<>>
  /\ UNCHANGED <<filters, limitCount, exceptQuery>>

\* builder.limit(count)
Limit(count) ==
  /\ limitCount' = <<count>>
  /\ executed' = <<>>
  /\ UNCHANGED <<filters, sortFn, exceptQuery>>

\* builder.execute(data), on the array of the earlier calls if there are any
Execute(data) ==
  /\ Len(executed) < MaxExecutes
  /\ executed # <<>> => data = executed[1].given
  /\ LET r == execute(filters, sortFn, limitCount, data)
     IN executed' = Append(executed, [given |-> data, after |-> r.data,
                                      result |-> r.result])
  /\ UNCHANGED <<filters, sortFn, limitCount, exceptQuery>>

QueryNext ==
  \/ \E predicate \in {"isElectronics", "over50"} : Where(predicate)
  \/ \E fn \in {"priceDesc", "priceAsc"} : SortBy(fn)
  \/ \E count \in {-1, 0, 1, 2, 10} : Limit(count)
  \/ \E n \in 0..MaxData : \E data \in [1..n -> Products] : Execute(data)

SpecQuery == LibraryInit /\ [][QueryNext]_vars

\* ------------------------------------------------- properties of the order
\* the table of section 4.2, as pairs
AllowedPairs ==
  {<<"pending", "confirmed">>, <<"pending", "cancelled">>,
   <<"confirmed", "shipped">>, <<"confirmed", "cancelled">>,
   <<"shipped", "delivered">>}

Terminal == {"delivered", "cancelled"}

Allowed(c) == <<c.before.state, TargetOf(c.event)>> \in AllowedPairs

Carries(message, tag) == \E i \in 1..Len(message) : message[i] = tag

\* C1: every transition call whose (from, target) pair is in the table
\* returns an order in the target state; after SHIP the result has the
\* event's trackingNumber, after CANCEL the event's reason.
C1_AllowedMoveReturnsTarget ==
  \A i \in 1..Len(hist) :
    LET c == hist[i] IN
    Allowed(c) =>
      /\ ~c.threw
      /\ c.ret \in 1..Len(heap)
      /\ heap[c.ret].state = TargetOf(c.event)
      /\ (c.event.type = "SHIP" =>
            heap[c.ret].trackingNumber = c.event.trackingNumber)
      /\ (c.event.type = "CANCEL" =>
            heap[c.ret].cancellationReason = c.event.reason)

C1_Witness ==
  /\ \E i \in 1..Len(hist) :
       /\ hist[i].event = [type |-> "SHIP", trackingNumber |-> "T2"]
       /\ ~hist[i].threw
  /\ heap[order].state = "delivered"
  /\ heap[order].trackingNumber = "T2"

\* C2: every transition call whose (from, target) pair is not in the table
\* throws, returns no order, allocates no order and leaves the order it was
\* given exactly as it was.
C2_DisallowedMoveThrowsAndLeavesOrder ==
  \A i \in 1..Len(hist) :
    LET c == hist[i] IN
    ~Allowed(c) =>
      /\ c.threw
      /\ c.ret = NoRef
      /\ c.allocated = 0
      /\ c.after = c.before

C2_Witness ==
  \E i \in 1..Len(hist) :
    /\ hist[i].before.state = "pending"
    /\ hist[i].event.type = "SHIP"
    /\ hist[i].threw
    /\ heap[hist[i].arg] = hist[i].before

\* C3: canTransition answers true exactly for the five pairs of the table.
C3_CanTransitionIsTheTable ==
  \A i \in 1..Len(canLog) :
    canLog[i].answer = (<<canLog[i].from, canLog[i].to>> \in AllowedPairs)

C3_Witness ==
  /\ Len(canLog) = 1
  /\ canLog[1].from = "confirmed"
  /\ canLog[1].to = "cancelled"
  /\ canLog[1].answer

Shipped_o1_T1 ==
  [id |-> "o1", state |-> "shipped",
   trackingNumber |-> "T1", cancellationReason |-> Undefined]

ScenarioCalls ==
  /\ Len(hist) >= 3
  /\ hist[1].before = NewOrder("o1")
  /\ hist[1].event = [type |-> "CONFIRM"]
  /\ hist[2].event = [type |-> "SHIP", trackingNumber |-> "T1"]
  /\ hist[3].event = [type |-> "CONFIRM"]

ScenarioFirstTwo ==
  /\ ~hist[1].threw
  /\ heap[hist[1].ret] = [NewOrder("o1") EXCEPT !.state = "confirmed"]
  /\ hist[2].arg = hist[1].ret
  /\ ~hist[2].threw
  /\ heap[hist[2].ret] = Shipped_o1_T1
  /\ hist[3].arg = hist[2].ret
  /\ hist[3].threw

C6_SuccessDoesNotMutateInput ==
  \A i \in 1..Len(hist) :
    LET c == hist[i] IN
    ~c.threw =>
      /\ c.ret # c.arg
      /\ c.allocated = 1
      /\ c.after.state = c.before.state
      /\ c.after.trackingNumber = c.before.trackingNumber
      /\ c.after.cancellationReason = c.before.cancellationReason
      /\ heap[c.arg] = c.before

C6_Witness ==
  /\ Len(hist) = 3
  /\ \A i \in 1..3 : ~hist[i].threw
  /\ heap[1].state = "pending"
  /\ heap[2].state = "confirmed"
  /\ heap[3].trackingNumber = "T1"
  /\ heap[4].state = "delivered"

\* C7: once the order is delivered or cancelled, every transition call is
\* rejected and the order's state never changes again.
C7_TerminalStatesAreTerminal ==
  [][heap[order].state \in Terminal =>
       /\ heap'[order'].state = heap[order].state
       /\ (hist' # hist => hist'[Len(hist')].threw)]_vars

C7_Witness ==
  /\ Len(hist) >= 2
  /\ hist[Len(hist)].before.state \in Terminal
  /\ hist[Len(hist)].threw
  /\ hist[Len(hist)].event.type = "CANCEL"
  /\ heap[order].state = "delivered"

\* ----------------------------------------------- properties of the emitter
WithPayload(hs, d) == [j \in 1..Len(hs) |-> [h |-> hs[j], data |-> d]]

\* C8: an emit call during which neither on nor off was called, and which
\* returns, has invoked every handler registered for its event exactly once,
\* in the order of the on() calls, each with the payload of the emit; while
\* an emit is running, the only handler of it that runs is the last one it
\* invoked, so none is running when it returns.
C8_EmitInvokesAllInOrder ==
  /\ \A i \in 1..Len(done) :
       ~done[i].mutated => done[i].seen = WithPayload(done[i].start, done[i].data)
  /\ \A p \in 1..Len(stack) :
       (stack[p].k = "emit" /\ p < Len(stack)) =>
          /\ stack[p].seen # <<>>
          /\ stack[p + 1].k = "call"
          /\ stack[p + 1].h = stack[p].seen[Len(stack[p].seen)].h
          /\ stack[p + 1].data = stack[p].data

C8_Witness ==
  /\ Idle
  /\ Len(done) = 1
  /\ ~done[1].mutated
  /\ done[1].ev = "login"
  /\ done[1].start = <<Fn("hB"), Fn("hRe"), Fn("hA")>>
  /\ done[1].seen = WithPayload(done[1].start, "p2")
  /\ ~armed

\* C9: once an emit(e) call of the program has invoked the handler of a
\* once(e, h) registration and is over, h has been invoked exactly once
\* through that registration, however many emit(e) calls were made, and the
\* registration is no longer in the handler set of e.
C9_OnceFiresExactlyOnce ==
  \A n \in 1..Len(onces) :
    (Idle /\ onces[n].emitted /\ onces[n].fired >= 1) =>
       /\ onces[n].fired = 1
       /\ ~Has(Handlers(listeners, onces[n].h.ev), onces[n].h)

\* C10: a handler registered with once is invoked at most once through that
\* registration, whatever the handlers do.
C10_OnceFiresAtMostOnce ==
  \A n \in 1..Len(onces) : onces[n].fired <= 1

\* C11: the handler set of every event holds exactly the handlers that on()
\* was called for and off() was not, in the order of the on() calls: off
\* removes the one handler it is given and leaves the others in place; an
\* emit made after an off invokes exactly the handlers that are left.
C11_OffRemovesOnlyThatHandler ==
  /\ \A e \in EventNames : Live(Handlers(listeners, e)) = registered[e]
  /\ \A i \in 1..Len(done) :
       (Idle /\ outcome = "returned" /\ Has(Handlers(listeners, done[i].ev), Empty)
          /\ ~done[i].mutated) =>
         done[i].seen = WithPayload(registered[done[i].ev], done[i].data)

C11_Witness ==
  /\ Idle
  /\ onces = <<>>
  /\ listeners = [login |-> <<Fn("hB"), Empty, Fn("hA")>>]
  /\ Len(done) = 1
  /\ done[1].seen = WithPayload(<<Fn("hB"), Fn("hA")>>, "p1")


\* the program's last call is the recorded off(), and it has returned
OffIsLastCall == lastOff # <<>> /\ Idle /\ done = <<>> /\ outcome = "returned"

\* C12: off(e, h) for a handler that is not registered for e (other handlers
\* are, or e has no handler set at all) returns without error and leaves
\* every handler set as it found it; and after any off(e, h) a second
\* off(e, h) changes nothing.
C12_OffOfUnregisteredIsNoOp ==
  OffIsLastCall =>
    /\ ~Has(Handlers(lastOff[1].before, lastOff[1].ev), lastOff[1].h) =>
         listeners = lastOff[1].before
    /\ off(listeners, lastOff[1].ev, lastOff[1].h) = listeners

C12_Witness ==
  /\ OffIsLastCall
  /\ lastOff[1].ev = "login"
  /\ lastOff[1].h = Fn("hA")
  /\ lastOff[1].before = [login |-> <<Fn("hB")>>]
  /\ listeners = [login |-> <<Fn("hB")>>]


\* the event of an emit call had no handler when the call was made
NoHandlersAt(f) == Live(Handlers(f.at, f.ev)) = <<>>

\* C13: an emit for an event that has no handler when it is called (none was
\* ever registered, or all were removed) invokes no handler, leaves the
\* handler sets as they are and returns normally.
C13_EmitWithoutHandlersDoesNothing ==
  /\ \A i \in 1..Len(stack) :
       (stack[i].k = "emit" /\ NoHandlersAt(stack[i])) =>
         /\ i = Len(stack)
         /\ stack[i].seen = <<>>
         /\ listeners = stack[i].at
  /\ \A i \in 1..Len(done) :
       NoHandlersAt(done[i]) =>
         /\ done[i].seen = <<>>
         /\ done[i].after = done[i].at
         /\ Idle => (outcome = "returned" /\ listeners = done[i].at)

C13_Witness ==
  /\ Idle
  /\ outcome = "returned"
  /\ Len(done) = 1
  /\ done[1].ev = "login"
  /\ done[1].at = [login |-> <<Empty, Empty>>]
  /\ done[1].seen = <<>>


Elems(sq) == {sq[j] : j \in 1..Len(sq)}

\* C14 as stated: an emit that returns has invoked exactly the handlers that
\* were registered for its event when it was called, whatever the handlers
\* did to the handler set meanwhile.
C14_EmitInvokesSnapshot ==
  \A i \in 1..Len(done) :
    done[i].seen = WithPayload(done[i].start, done[i].data)

\* C14 amended: emit iterates the handler set itself, not a copy. An emit
\* that returns has invoked every handler that is registered for its event
\* when it returns; a handler that off was called for before its turn (and
\* that was not registered again) has not been invoked in that dispatch; a
\* handler that on registered during the dispatch (and that was not removed
\* again before its turn) has been invoked in that dispatch.
C14_EmitIteratesLiveSet ==
  \A i \in 1..Len(done) :
    /\ Elems(done[i].final) \subseteq SeenHandlers(done[i])
    /\ (done[i].skipped \ done[i].added) \cap SeenHandlers(done[i]) = {}
    /\ (done[i].added \ done[i].skipped) \subseteq SeenHandlers(done[i])

C14_Witness ==
  /\ Idle
  /\ outcome = "returned"
  /\ Len(done) = 1
  /\ done[1].start = <<Fn("hOn"), Fn("hOff"), Fn("hA")>>
  /\ done[1].skipped = {Fn("hA")}
  /\ done[1].added = {}
  /\ done[1].seen = WithPayload(<<Fn("hOn"), Fn("hOff")>>, "p1")


\* C15: off(e, h) removes a handler registered with once(e, h). After
\* once(e, h) and then off(e, h), with no emit of e in between, the emits
\* that follow do not invoke h.
C15_OffCancelsOnce ==
  \A i \in 1..Len(lastOff) :
    \A n \in lastOff[i].waiting : onces[n].fired = 0


\* a handler throws in this step
ThrowStep == ~Idle /\ outcome' = "threw"

\* the handlers a running emit has still to visit have not been invoked by it
LaterNotInvoked(f) ==
  \A j \in Pending(Handlers(listeners, f.ev), f.idx) :
    listeners[f.ev][j] \notin SeenHandlers(f)

\* C16: when a handler throws during an emit, the emit call of the program
\* fails at once: every emit on the call stack ends there, so the handlers
\* after the throwing one, which it had not invoked, are not invoked and no
\* handler is invoked again; the handler sets are those the throwing
\* handler was called with.
C16_ThrowEndsDispatch ==
  [][ThrowStep =>
       /\ Idle'
       /\ \A i \in 1..Len(stack) : stack[i].k = "emit" => LaterNotInvoked(stack[i])
       /\ listeners = Top.at
       /\ listeners' = listeners
       /\ registered' = registered
       /\ onces' = onces
       /\ done' = done]_vars

C16_Witness ==
  /\ Idle
  /\ outcome = "threw"
  /\ done = <<>>
  /\ onces = <<>>
  /\ listeners = [login |-> <<Fn("hA"), Fn("hThrow"), Fn("hB")>>]


\* C17: emit does not guard against being called from a handler. A handler
\* that calls emit for its own event every time it runs is invoked again by
\* each nested emit, so no emit that has invoked it ever returns: the
\* dispatch nests until the call stack is exhausted.
C17_ReEmittingDispatchNeverReturns ==
  /\ \A i \in 1..Len(done) : Fn("hLoop") \notin SeenHandlers(done[i])
  /\ \A i \in 1..Len(stack) :
       (stack[i].k = "call" /\ stack[i].h = Fn("hLoop") /\ stack[i].pc = "after") =>
         /\ i < Len(stack)
         /\ stack[i + 1].k = "emit"
         /\ stack[i + 1].ev = stack[i].ev

C17_Witness ==
  /\ Len(stack) = 5
  /\ stack[1].k = "emit"
  /\ stack[2].h = Fn("hLoop")
  /\ stack[3].k = "emit"
  /\ stack[4].h = Fn("hLoop")
  /\ stack[5].k = "emit"
  /\ stack[5].seen = <<>>


\* C18: canTransition only reads. After any calls of canTransition and
\* transition, rejected ones included, the table of the state machine is the
\* one it was built with, the order is the one the last call found, and the
\* answer canTransition gave is the answer it gives for that pair now and
\* gave at the start.
C18_CanTransitionIsPure ==
  /\ validTransitions = InitialTransitions
  /\ \A i \in 1..Len(canLog) :
       /\ canLog[i].answer = canTransition(canLog[i].from, canLog[i].to)
       /\ canLog[i].answer = includes(InitialTransitions[canLog[i].from], canLog[i].to)

C18_Witness ==
  /\ Len(hist) = 2
  /\ ~hist[1].threw
  /\ hist[2].threw
  /\ Len(canLog) = 1
  /\ canLog[1].from = "pending"
  /\ canLog[1].to = "confirmed"
  /\ canLog[1].answer
  /\ validTransitions["pending"] = <<"confirmed", "cancelled">>

IsSet(v) == v # Undefined

\* C19: every order the program has held (the pending order it starts with
\* and each order a transition returned) carries a trackingNumber exactly
\* when it is shipped or delivered and a cancellationReason exactly when it
\* is cancelled, and never both.
C19_FieldsMatchState ==
  \A o \in 1..Len(heap) :
    /\ IsSet(heap[o].trackingNumber) <=> heap[o].state \in {"shipped", "delivered"}
    /\ IsSet(heap[o].cancellationReason) <=> heap[o].state = "cancelled"
    /\ ~(IsSet(heap[o].trackingNumber) /\ IsSet(heap[o].cancellationReason))

C19_Witness ==
  /\ Len(heap) = 4
  /\ heap[order].state = "delivered"
  /\ heap[order].trackingNumber = "T2"
  /\ heap[order].cancellationReason = Undefined
  /\ heap[1].trackingNumber = Undefined

\* C20: the default branch of the switch in transition is never taken for
\* an event of the four declared types: a call either returns a new order
\* or fails with the rejection of the case of its event.
C20_FallbackIsUnreachable ==
  \A i \in 1..Len(hist) :
    /\ hist[i].error # UnknownEvent
    /\ hist[i].threw =>
         hist[i].error = CannotError(VerbOf(hist[i].event), hist[i].before.state)
    /\ ~hist[i].threw => hist[i].allocated = 1 /\ hist[i].ret # hist[i].arg

C20_Witness ==
  /\ Len(hist) = 4
  /\ hist[3].event.type = "DELIVER"
  /\ ~hist[3].threw
  /\ hist[4].event.type = "DELIVER"
  /\ hist[4].threw


\* this step leaves the handler set of every event but e as it is
OthersUntouched(e) ==
  \A x \in EventNames \ {e} :
    /\ x \in DOMAIN listeners' <=> x \in DOMAIN listeners
    /\ Handlers(listeners', x) = Handlers(listeners, x)

\* C21: the handler sets are kept per event name. A call of on, off or once
\* for e, and every step of an emit of e, leaves the handler sets of the
\* other events as they are, and an emit of e invokes only handlers that
\* are registered for e.
C21_RegistryIsKeyedByEvent ==
  [][/\ \A e \in EventNames :
          (\E name \in PlainNames :
             On(e, name) \/ OffRecorded(e, name) \/ Once(e, name)) =>
            OthersUntouched(e)
     /\ ~Idle => OthersUntouched(stack[1].ev)
     /\ (Idle /\ ~Idle') => listeners' = listeners
     /\ \A i \in 1..Len(done') :
          SeenHandlers(done'[i]) \subseteq Elems(done'[i].start)]_vars

C21_Witness ==
  /\ Idle
  /\ listeners = [login |-> <<Fn("hA")>>, logout |-> <<Fn("hB")>>]
  /\ Len(done) = 1
  /\ done[1].ev = "login"
  /\ done[1].seen = WithPayload(<<Fn("hA")>>, "p2")


\* how many times an emit invoked h
Invocations(f, h) == Cardinality({j \in 1..Len(f.seen) : f.seen[j].h = h})

\* C24: a handler set never holds a handler twice. A handler that on() was
\* called for again while it was registered is invoked once by each emit of
\* its event, at the place of its first registration, and one off() for it
\* leaves no registration behind: the emits that follow do not invoke it.
C24_NoHandlerTwice ==
  /\ \A e \in DOMAIN listeners :
       \A i, j \in 1..Len(listeners[e]) :
         (listeners[e][i] = listeners[e][j] /\ i # j) => listeners[e][i] = Empty
  /\ \A i \in 1..Len(done) :
       /\ done[i].seen = WithPayload(done[i].start, done[i].data)
       /\ \A h \in again[done[i].ev] :
            Invocations(done[i], h) = IF h \in Elems(done[i].final) THEN 1 ELSE 0
  /\ OffIsLastCall => ~Has(Handlers(listeners, lastOff[1].ev), lastOff[1].h)

C24_Witness ==
  /\ Idle
  /\ again["login"] = {Fn("hA")}
  /\ listeners = [login |-> <<Fn("hA"), Fn("hB")>>]
  /\ Len(done) = 1
  /\ done[1].seen = WithPayload(<<Fn("hA"), Fn("hB")>>, "p1")


\* the calls of transition that returned
Succeeded == {i \in 1..Len(hist) : ~hist[i].threw}

\* the state of the order a call returned
Entered(i) == heap[hist[i].ret].state

\* C25: the state machine has no cycle. In any sequence of transition calls
\* from a pending order no state is entered twice (pending is never entered
\* again), at most 3 calls succeed, and an order in a state that is not
\* terminal has at least one event that is accepted.
C25_AcyclicAndBounded ==
  /\ \A i \in Succeeded : Entered(i) # "pending"
  /\ \A i, j \in Succeeded : Entered(i) = Entered(j) => i = j
  /\ Cardinality(Succeeded) <= 3
  /\ heap[order].state \notin Terminal =>
       \E event \in OrderEvent : ~transition(heap, order, event).threw

C25_Witness ==
  /\ Cardinality(Succeeded) = 3
  /\ Len(hist) = 4
  /\ heap[order].state = "delivered"
  /\ hist[2].threw


\* C26: the order a transition returns differs from the order it was given
\* only in the state and in the field its event carries: the id is kept by
\* every event, CONFIRM and DELIVER keep trackingNumber and
\* cancellationReason, SHIP keeps cancellationReason and CANCEL keeps
\* trackingNumber.
C26_SuccessKeepsOtherFields ==
  \A i \in Succeeded :
    LET b == hist[i].before
        r == heap[hist[i].ret]
        t == hist[i].event.type
    IN /\ r.id = b.id
       /\ t \in {"CONFIRM", "DELIVER", "CANCEL"} => r.trackingNumber = b.trackingNumber
       /\ t \in {"CONFIRM", "DELIVER", "SHIP"} =>
            r.cancellationReason = b.cancellationReason

C26_Witness ==
  /\ Len(hist) = 3
  /\ hist[2].event = [type |-> "SHIP", trackingNumber |-> "T1"]
  /\ hist[3].event.type = "DELIVER"
  /\ ~hist[3].threw
  /\ heap[hist[3].ret].state = "delivered"
  /\ heap[hist[3].ret].trackingNumber = "T1"
  /\ heap[hist[3].ret].id = "o2"


\* ------------------------------------------ properties of the repository
\* arr without its k-th item
Without(arr, k) == SubSeq(arr, 1, k - 1) \o SubSeq(arr, k + 1, Len(arr))

\* the items with this id, in the order they are stored
WithId(arr, id) == SelectSeq(arr, LAMBDA u : u.id = id)

\* C22: delete(id) returns true exactly when an item with the id is stored
\* and then removes the earliest added item with that id and no other, and
\* otherwise returns false and changes nothing; findById(id) returns the
\* earliest added item with the id that is still stored, or undefined;
\* getAll returns the stored items in the order they were added, in an
\* array of its own: what the caller does to it leaves the store as it is.
C22_RepositoryKeepsOrder ==
  \A i \in 1..Len(repoLog) :
    LET c == repoLog[i]
        same == WithId(c.before, c.id)
    IN /\ c.op = "add" => items = Append(c.before, c.item)
       /\ c.op = "delete" =>
            IF same = <<>>
            THEN c.ret = FALSE /\ items = c.before
            ELSE /\ c.ret = TRUE
                 /\ \E k \in 1..Len(c.before) :
                      /\ c.before[k] = same[1]
                      /\ \A j \in 1..(k - 1) : c.before[j].id # c.id
                      /\ items = Without(c.before, k)
       /\ c.op = "findById" =>
            /\ items = c.before
            /\ c.ret = IF same = <<>> THEN NoProfile ELSE same[1]
       /\ c.op = "getAll" => items = c.before /\ got # 1 /\ arrays[got] = c.before
       /\ c.op = "clear" => items = c.before /\ got # 1 /\ arrays[got] = <<>>

C22_Witness ==
  /\ Len(repoLog) = 1
  /\ repoLog[1].op = "delete"
  /\ repoLog[1].id = 1
  /\ repoLog[1].before =
       <<[id |-> 2, name |-> "Bob"], [id |-> 1, name |-> "Alice"],
         [id |-> 1, name |-> "Bob"]>>
  /\ repoLog[1].ret = TRUE
  /\ items = <<[id |-> 2, name |-> "Bob"], [id |-> 1, name |-> "Bob"]>>


\* -------------------------------------------- properties of refundPayment
\* C23: refundPayment returns null for a payment that is pending,
\* processing, failed or refunded, and for a completed payment a new
\* payment with status refunded and the orderId, amount and transactionId
\* of the one it was given; the payment it was given is left as it was.
C23_RefundOnlyCompleted ==
  \A i \in 1..Len(payLog) :
    LET c == payLog[i] IN
    /\ payHeap[c.arg] = c.before
    /\ c.before.status \in {"pending", "processing", "failed", "refunded"} =>
         c.ret = NoRef /\ c.allocated = 0
    /\ c.before.status = "completed" =>
         /\ c.ret \in 1..Len(payHeap)
         /\ c.ret # c.arg
         /\ c.allocated = 1
         /\ payHeap[c.ret].status = "refunded"
         /\ payHeap[c.ret].orderId = c.before.orderId
         /\ payHeap[c.ret].amount = c.before.amount
         /\ payHeap[c.ret].transactionId = c.before.transactionId

C23_Witness ==
  /\ Len(payLog) = 1
  /\ payLog[1].arg = 1
  /\ payLog[1].before.status = "completed"
  /\ payLog[1].before.transactionId = "tx2"
  /\ payLog[1].ret = 2
  /\ payHeap[2].status = "refunded"
  /\ payHeap[2].transactionId = "tx2"
  /\ payHeap[1].status = "completed"


\* ------------------------------------------------ properties of the cache
\* the last value written for the key has not reached its expiry time
Unexpired(w) == w.ttl = 0 \/ clock < w.due

\* C27: get(key) returns the value of the last set(key, ...) until the
\* expiry time of that same set: the timer of an earlier set for the key
\* does not remove the value a later set has written.
C27_TimerRemovesOnlyItsOwnWrite ==
  \A key \in CacheKeys :
    \A i \in 1..Len(lastWrite[key]) :
      Unexpired(lastWrite[key][i]) => get(store, key) = lastWrite[key][i].value


\* ---------------------------------------------- properties of withRetry
\* C28: an invocation calls fn at most maxRetries times, each time with the
\* arguments it was given, and calls it no more after a call that
\* succeeds: it resolves with the result of that call. When maxRetries
\* calls have failed it rejects with the error of the last of them, and
\* an invocation that is not running has settled.
C28_RetryCallsAtMostMaxRetries ==
  /\ Len(calls) <= frame.maxRetries
  /\ \A j \in 1..Len(calls) :
       /\ calls[j].args = frame.args
       /\ calls[j].ok => j = Len(calls) /\ frame.pc = "idle"
  /\ (frame.pc = "idle" /\ frame.args # <<>>) => settled # <<>>
  /\ \A k \in 1..Len(settled) :
       /\ frame.pc = "idle"
       /\ settled[k].kind = "resolved" =>
            /\ calls # <<>>
            /\ calls[Len(calls)].ok
            /\ settled[k].value = calls[Len(calls)].value
       /\ settled[k].kind = "rejected" =>
            /\ Len(calls) = frame.maxRetries
            /\ \A j \in 1..Len(calls) : ~calls[j].ok
            /\ calls # <<>> => settled[k].value = calls[Len(calls)].value
            /\ calls = <<>> => settled[k].value = Undefined

C28_Witness ==
  /\ frame.pc = "idle"
  /\ frame.maxRetries = 3
  /\ Len(calls) = 3
  /\ calls[1].value = "e1"
  /\ calls[3].value = "e2"
  /\ settled = <<[kind |-> "rejected", value |-> "e2"]>>


\* ------------------------------------ properties of the user repository
\* C29: update(id, data) for an id that is not stored fails with 'User not
\* found' and delete(id) for such an id returns false, both leaving the
\* users as they are; delete(id) for a stored id returns true and removes
\* that user (the first with the id) and no other; update for a stored id
\* replaces that user and keeps the number and the order of the users.
C29_UnknownIdLeavesUsers ==
  \A i \in 1..Len(userLog) :
    LET c == userLog[i]
        k == FirstWithId(c.before, c.id)
    IN /\ (c.op = "update" /\ k = 0) =>
            c.threw /\ c.error = UserNotFound /\ users = c.before
       /\ (c.op = "update" /\ k # 0) =>
            /\ ~c.threw
            /\ Len(users) = Len(c.before)
            /\ \A j \in 1..Len(users) : j # k => users[j] = c.before[j]
            /\ users[k].updatedAt = "d1"
       /\ (c.op = "delete" /\ k = 0) => c.ret = FALSE /\ users = c.before
       /\ (c.op = "delete" /\ k # 0) => c.ret = TRUE /\ users = Without(c.before, k)

C29_Witness ==
  /\ Len(userLog) = 1
  /\ userLog[1].op = "update"
  /\ userLog[1].id = "u3"
  /\ userLog[1].threw
  /\ Len(users) = 2
  /\ users[1].id = "u1"
  /\ users[2].id = "u2"
  /\ users[2].updatedAt = "d1"


\* ------------------------------------------ properties of the query builder
\* the items of data that satisfy every where predicate
Passing(data) == {j \in 1..Len(data) : \A f \in 1..Len(filters) : Holds(filters[f], data[j])}

\* C30: execute(data) leaves the array it is given as it was and applies
\* filter, then sort, then limit, whatever the order of the where, sortBy
\* and limit calls: every item returned satisfies every where predicate, the
\* items returned are in the order of sortFn and no passing item left out
\* sorts before one returned, at most limitCount items are returned, and
\* two execute calls on the same builder and array return the same.
C30_ExecuteFiltersSortsLimits ==
  \A i \in 1..Len(executed) :
    LET given == executed[i].given
        result == executed[i].result
    IN /\ executed[i].after = given
       /\ \A k \in 1..Len(result) :
            /\ \E j \in Passing(given) : given[j] = result[k]
            /\ \A f \in 1..Len(filters) : Holds(filters[f], result[k])
       /\ sortFn # Undefined =>
            /\ \A k, l \in 1..Len(result) :
                 k < l => compare(sortFn, result[k], result[l]) <= 0
            /\ \A j \in Passing(given) :
                 \/ \E k \in 1..Len(result) : result[k] = given[j]
                 \/ \A k \in 1..Len(result) :
                      compare(sortFn, given[j], result[k]) >= 0
       /\ limitCount # <<>> => Len(result) <= limitCount[1]
       /\ limitCount = <<>> => Len(result) = Cardinality(Passing(given))
       /\ \A j \in 1..Len(executed) : executed[j].result = result

====
